---- MODULE Spec2Model ----
(***************************************************************************)
(* Model of helpers/sprite_into_tiles.py: a script that creates "tiles/",  *)
(* opens "sprites.png" and saves the 12 cells of a 6 x 2 grid of 213 x 213 *)
(* squares as "tiles/{color}_{piece}.png".                                 *)
(*                                                                         *)
(* The file system (the directory "tiles/" and its files, the file         *)
(* "sprites.png") is the environment of the script.  The script can be run *)
(* several times; between two runs the environment may remove "tiles/" or  *)
(* replace "sprites.png".                                                  *)
(***************************************************************************)
EXTENDS Integers, Sequences, FiniteSets, TLC

VARIABLES
    pc,          \* position of the script: "mkdir", "open", "loop", "done", "failed"
    run,         \* number of the current run of the script (1, 2, ...)
    err,         \* exception that ended the current run, "none" if none
    prevErr,     \* err of the previous run ("none" for the first run)
    tilesExists, \* file system: does the directory "tiles/" exist
    files,       \* file system: file name in "tiles/" -> content
    removed,     \* "tiles/" was removed since the last mkdir("tiles/") call
    spriteOk,    \* file system: "sprites.png" exists and is an image
    sheetSize,   \* file system: <<width, height>> of the image in "sprites.png"
    sheet,       \* the script's variable sheet: size of the opened image, NoImage before
    i, x, y,     \* the script's variables i, x, y
    saved,       \* file names saved by the current run, in order
    crops,       \* boxes (x0, y0, x1, y1) cropped by the current run, in order
    a, b,        \* inputs of the calls of name made by CallName
    na, nb       \* results of these calls, "" before the calls

vars == <<pc, run, err, prevErr, tilesExists, files, removed, spriteOk, sheetSize,
          sheet, i, x, y, saved, crops, a, b, na, nb>>

-----------------------------------------------------------------------------
(* Bounds of the model *)

MaxRuns == 3
MaxIdx == 17

\* sizes of the image in "sprites.png": the expected one, larger and smaller ones
SheetSizes == { <<1278, 426>>, <<1500, 500>>, <<1278, 425>>, <<1000, 300>>, <<100, 100>> }

-----------------------------------------------------------------------------
(* The script's constants *)

l == 213
Cols == 6
Rows == 2

NoImage == <<>>
NoFiles == <<>>

\* a file that was in "tiles/" before the first run
Stale == [kind |-> "stale"]
\* what a save that failed midway may leave behind
Partial == [kind |-> "partial"]

Max(m, n) == IF m >= n THEN m ELSE n
Min(m, n) == IF m <= n THEN m ELSE n

-----------------------------------------------------------------------------
(* def name(idx) *)

nameMod5(idx) ==
    LET color == IF idx < 6 THEN "white" ELSE "black"
        piece == idx % 5
        nm == CASE piece = 0 -> "king"
                [] piece = 1 -> "queen"
                [] piece = 2 -> "bishop"
                [] piece = 3 -> "knight"
                [] piece = 4 -> "rook"
                [] OTHER -> ""
    IN  color \o "_" \o nm

nameColorLE(idx) ==
    LET color == IF idx <= 6 THEN "white" ELSE "black"
        piece == idx % 6
        nm == CASE piece = 0 -> "king"
                [] piece = 1 -> "queen"
                [] piece = 2 -> "bishop"
                [] piece = 3 -> "knight"
                [] piece = 4 -> "rook"
                [] piece = 5 -> "pawn"
                [] OTHER -> ""
    IN  color \o "_" \o nm

nameColorSwapped(idx) ==
    LET color == IF idx >= 6 THEN "white" ELSE "black"
        piece == idx % 6
        nm == CASE piece = 0 -> "king"
                [] piece = 1 -> "queen"
                [] piece = 2 -> "bishop"
                [] piece = 3 -> "knight"
                [] piece = 4 -> "rook"
                [] piece = 5 -> "pawn"
                [] OTHER -> ""
    IN  color \o "_" \o nm

name(idx) ==
    LET color == IF idx < 6 THEN "white" ELSE "black"
        piece == idx % 6
        nm == CASE piece = 0 -> "king"
                [] piece = 1 -> "queen"
                [] piece = 2 -> "bishop"
                [] piece = 3 -> "knight"
                [] piece = 4 -> "rook"
                [] piece = 5 -> "pawn"
                [] OTHER -> ""
    IN  color \o "_" \o nm

\* f"tiles/{name(i)}.png", relative to "tiles/"
FileName(idx) == name(idx) \o ".png"

-----------------------------------------------------------------------------
(* The crop of one cell *)

CropBoxShort(cx, cy) ==
    LET x0 == cx * l
        y0 == cy * l
        x1 == x0 + l - 1
        y1 == y0 + l - 1
    IN  <<x0, y0, x1, y1>>

CropBoxSwapped(cx, cy) ==
    LET x0 == cy * l
        y0 == cx * l
        x1 == x0 + l
        y1 == y0 + l
    IN  <<x0, y0, x1, y1>>

\* x0 = x*l; y0 = y*l; x1 = x0 + l; y1 = y0 + l
CropBox(cx, cy) ==
    LET x0 == cx * l
        y0 == cy * l
        x1 == x0 + l
        y1 == y0 + l
    IN  <<x0, y0, x1, y1>>

\* Image.crop(box): an image of the size of the box; the part of the box that
\* lies in the image (src) carries the image's pixels, the rest is zero-filled.
\* A box that exceeds the image is no error.
crop(img, box) ==
    [kind |-> "tile",
     box  |-> box,
     size |-> <<box[3] - box[1], box[4] - box[2]>>,
     src  |-> <<Max(box[1], 0), Max(box[2], 0), Min(box[3], img[1]), Min(box[4], img[2])>>]

NextCellOffByOne(cx, cy) == IF cx + 1 <= Cols THEN <<cx + 1, cy>> ELSE <<0, cy + 1>>

\* for y in range(2): for x in range(6): the cell after (cx, cy)
NextCell(cx, cy) == IF cx + 1 < Cols THEN <<cx + 1, cy>> ELSE <<0, cy + 1>>

-----------------------------------------------------------------------------
(* Initial states *)

ProgInit ==
    /\ pc = "mkdir"
    /\ run = 1
    /\ err = "none"
    /\ prevErr = "none"
    /\ removed = FALSE
    /\ sheet = NoImage
    /\ i = 0 /\ x = 0 /\ y = 0
    /\ saved = <<>>
    /\ crops = <<>>

FsInit ==
    /\ tilesExists \in BOOLEAN
    /\ files \in IF tilesExists
                 THEN {NoFiles, "white_king.png" :> Stale, "notes.txt" :> Stale}
                 ELSE {NoFiles}
    /\ spriteOk \in BOOLEAN
    /\ sheetSize \in SheetSizes

Init ==
    /\ ProgInit
    /\ FsInit
    /\ a = 0 /\ b = 0 /\ na = "" /\ nb = ""

-----------------------------------------------------------------------------
(* The script *)

progVars == <<sheet, i, x, y, saved, crops>>
nameVars == <<a, b, na, nb>>

MkdirExistOk ==
    /\ pc = "mkdir"
    /\ removed' = FALSE
    /\ tilesExists' = TRUE
    /\ pc' = "open"
    /\ UNCHANGED <<err, files>>
    /\ UNCHANGED <<run, prevErr, spriteOk, sheetSize, progVars, nameVars>>

\* mkdir("tiles/")
Mkdir ==
    /\ pc = "mkdir"
    /\ removed' = FALSE
    /\ IF tilesExists
       THEN /\ pc' = "failed"
            /\ err' = "FileExistsError"
            /\ UNCHANGED <<tilesExists, files>>
       ELSE /\ tilesExists' = TRUE
            /\ files' = NoFiles
            /\ pc' = "open"
            /\ UNCHANGED err
    /\ UNCHANGED <<run, prevErr, spriteOk, sheetSize, progVars, nameVars>>

OpenCleanup ==
    /\ pc = "open"
    /\ IF spriteOk
       THEN /\ sheet' = sheetSize
            /\ i' = 0 /\ x' = 0 /\ y' = 0
            /\ pc' = "loop"
            /\ UNCHANGED <<err, tilesExists, files>>
       ELSE /\ pc' = "failed"
            /\ err' = "FileNotFoundError"
            /\ tilesExists' = FALSE
            /\ files' = NoFiles
            /\ UNCHANGED <<sheet, i, x, y>>
    /\ UNCHANGED <<run, prevErr, removed, spriteOk, sheetSize,
                   saved, crops, nameVars>>

\* sheet = Image.open("sprites.png"); i = 0; l = 213; first cell of the loops
Open ==
    /\ pc = "open"
    /\ IF spriteOk
       THEN /\ sheet' = sheetSize
            /\ i' = 0 /\ x' = 0 /\ y' = 0
            /\ pc' = "loop"
            /\ UNCHANGED err
       ELSE /\ pc' = "failed"
            /\ err' = "FileNotFoundError"
            /\ UNCHANGED <<sheet, i, x, y>>
    /\ UNCHANGED <<run, prevErr, tilesExists, files, removed, spriteOk, sheetSize,
                   saved, crops, nameVars>>

SaveTileChecked ==
    /\ pc = "loop"
    /\ y < Rows
    /\ LET box == CropBox(x, y)
           inside == box[1] >= 0 /\ box[2] >= 0 /\ box[3] <= sheet[1] /\ box[4] <= sheet[2]
       IN  IF inside
           THEN /\ crops' = Append(crops, box)
                /\ files' = (FileName(i) :> crop(sheet, box)) @@ files
                /\ saved' = Append(saved, FileName(i))
                /\ i' = i + 1
                /\ x' = NextCell(x, y)[1]
                /\ y' = NextCell(x, y)[2]
                /\ UNCHANGED <<pc, err>>
           ELSE /\ pc' = "failed"
                /\ err' = "ValueError"
                /\ UNCHANGED <<crops, files, saved, i, x, y>>
    /\ UNCHANGED <<run, prevErr, tilesExists, removed, spriteOk, sheetSize,
                   sheet, nameVars>>

\* one iteration of the inner loop:
\* sheet.crop((x0, y0, x1, y1)).save(f"tiles/{name(i)}.png"); i += 1
SaveTile ==
    /\ pc = "loop"
    /\ y < Rows
    /\ LET box == CropBox(x, y)
       IN  /\ crops' = Append(crops, box)
           /\ files' = (FileName(i) :> crop(sheet, box)) @@ files
           /\ saved' = Append(saved, FileName(i))
    /\ i' = i + 1
    /\ x' = NextCell(x, y)[1]
    /\ y' = NextCell(x, y)[2]
    /\ UNCHANGED <<pc, run, err, prevErr, tilesExists, removed, spriteOk, sheetSize,
                   sheet, nameVars>>

SaveFailSkip ==
    /\ pc = "loop"
    /\ y < Rows
    /\ crops' = Append(crops, CropBox(x, y))
    /\ i' = i + 1
    /\ x' = NextCell(x, y)[1]
    /\ y' = NextCell(x, y)[2]
    /\ UNCHANGED <<pc, err, files>>
    /\ UNCHANGED <<run, prevErr, tilesExists, removed, spriteOk, sheetSize,
                   sheet, saved, nameVars>>

\* the same iteration when sheet.crop(...).save(...) raises an I/O error (crop
\* loading the image data, or save writing the file, e.g. on a full disk): the
\* exception is not caught, the script ends.  Depending on where the write
\* failed and on Pillow's version, no file or a partial file is left.
SaveFail ==
    /\ pc = "loop"
    /\ y < Rows
    /\ crops' = Append(crops, CropBox(x, y))
    /\ \/ files' = files
       \/ files' = (FileName(i) :> Partial) @@ files
    /\ pc' = "failed"
    /\ err' = "OSError"
    /\ UNCHANGED <<run, prevErr, tilesExists, removed, spriteOk, sheetSize,
                   sheet, i, x, y, saved, nameVars>>

\* range(2) is exhausted: the script ends
Finish ==
    /\ pc = "loop"
    /\ y >= Rows
    /\ pc' = "done"
    /\ UNCHANGED <<run, err, prevErr, tilesExists, files, removed, spriteOk, sheetSize,
                   progVars, nameVars>>

\* the script is run again
Start ==
    /\ pc \in {"done", "failed"}
    /\ run < MaxRuns
    /\ run' = run + 1
    /\ pc' = "mkdir"
    /\ prevErr' = err
    /\ err' = "none"
    /\ sheet' = NoImage
    /\ i' = 0 /\ x' = 0 /\ y' = 0
    /\ saved' = <<>>
    /\ crops' = <<>>
    /\ UNCHANGED <<tilesExists, files, removed, spriteOk, sheetSize, nameVars>>

-----------------------------------------------------------------------------
(* The environment, between two runs *)

\* "tiles/" is removed with its files
RemoveDir ==
    /\ pc \in {"done", "failed"}
    /\ run < MaxRuns
    /\ tilesExists
    /\ tilesExists' = FALSE
    /\ files' = NoFiles
    /\ removed' = TRUE
    /\ UNCHANGED <<pc, run, err, prevErr, spriteOk, sheetSize, progVars, nameVars>>

\* "sprites.png" is replaced, removed or provided
SetSprite ==
    /\ pc \in {"done", "failed"}
    /\ run < MaxRuns
    /\ \E ok \in BOOLEAN, sz \in SheetSizes :
          /\ <<ok, sz>> # <<spriteOk, sheetSize>>
          /\ spriteOk' = ok
          /\ sheetSize' = sz
    /\ UNCHANGED <<pc, run, err, prevErr, tilesExists, files, removed, progVars, nameVars>>

Next == Mkdir \/ Open \/ SaveTile \/ Finish \/ Start \/ RemoveDir \/ SetSprite

Spec == Init /\ [][Next]_vars

\* the script's steps are taken as long as one is possible
LiveSpec == Spec /\ WF_vars(Mkdir) /\ WF_vars(Open) /\ WF_vars(SaveTile) /\ WF_vars(Finish)

\* the file system may fail a save
NextIO == Next \/ SaveFail

SpecIO == Init /\ [][NextIO]_vars

-----------------------------------------------------------------------------
(* Calls of name on arbitrary indices *)

NameInit ==
    /\ ProgInit
    /\ tilesExists = FALSE /\ files = NoFiles /\ spriteOk = TRUE
    /\ sheetSize = <<1278, 426>>
    /\ a \in 0..MaxIdx
    /\ b \in 0..MaxIdx
    /\ na = "" /\ nb = ""

CallName ==
    /\ na = ""
    /\ na' = name(a)
    /\ nb' = name(b)
    /\ UNCHANGED <<pc, run, err, prevErr, tilesExists, files, removed, spriteOk,
                   sheetSize, progVars, a, b>>

NameNext == CallName

NameSpec == NameInit /\ [][NameNext]_vars

-----------------------------------------------------------------------------
(* Vocabulary of the properties *)

Colors == {"white", "black"}
PieceOrder == <<"king", "queen", "bishop", "knight", "rook", "pawn">>
Pieces == {PieceOrder[k] : k \in 1..Len(PieceOrder)}
AllTileFiles == {c \o "_" \o p \o ".png" : c \in Colors, p \in Pieces}

Called == na # ""

Width(box) == box[3] - box[1]
Height(box) == box[4] - box[2]
InRegion(box, w, h) == box[1] >= 0 /\ box[2] >= 0 /\ box[3] <= w /\ box[4] <= h
Disjoint(r, s) == r[3] <= s[1] \/ s[3] <= r[1] \/ r[4] <= s[2] \/ s[4] <= r[2]

RECURSIVE AreaSum(_)
AreaSum(boxes) ==
    IF boxes = <<>> THEN 0
    ELSE Width(Head(boxes)) * Height(Head(boxes)) + AreaSum(Tail(boxes))

NoDup(seq) == \A j, k \in 1..Len(seq) : j # k => seq[j] # seq[k]

\* the files of "tiles/" that hold a complete tile
TileFiles == {f \in DOMAIN files : files[f].kind = "tile"}

Smaller(img) == img[1] < 1278 \/ img[2] < 426
Exceeds(box, img) == box[1] < 0 \/ box[2] < 0 \/ box[3] > img[1] \/ box[4] > img[2]

-----------------------------------------------------------------------------
\* C1: for every index i in 0..11, name(i) is "{color}_{piece}" with color
\* "white" for i in 0..5 and "black" for i in 6..11 and piece the (i mod 6)-th
\* of king, queen, bishop, knight, rook, pawn; name(0) = "white_king",
\* name(5) = "white_pawn", name(6) = "black_king", name(11) = "black_pawn".
C1_NameMapping ==
    (Called /\ a \in 0..11) =>
        /\ a \in 0..5 => na = "white" \o "_" \o PieceOrder[(a % 6) + 1]
        /\ a \in 6..11 => na = "black" \o "_" \o PieceOrder[(a % 6) + 1]
        /\ a = 0 => na = "white_king"
        /\ a = 5 => na = "white_pawn"
        /\ a = 6 => na = "black_king"
        /\ a = 11 => na = "black_pawn"

C1_Witness == Called /\ a = 11 /\ na = "black_pawn"

\* C2, as claimed: for all i in 0..11, name(i) has the color "white" and
\* name(i+6) is the same name with the color "black" instead.
C2_SwapOnAll ==
    (Called /\ a \in 0..11 /\ b = a + 6) =>
        \E p \in Pieces : na = "white_" \o p /\ nb = "black_" \o p

\* C2, amended: for all i in 0..5, name(i+6) is name(i) with the color swapped
\* from "white" to "black" and the same piece; for i in 6..11 the color of
\* name(i) is "black" already and name(i+6) = name(i).
C2_SwapOnWhite ==
    (Called /\ b = a + 6) =>
        /\ a \in 0..5 => \E p \in Pieces : na = "white_" \o p /\ nb = "black_" \o p
        /\ a \in 6..11 => nb = na /\ \E p \in Pieces : na = "black_" \o p

C2_Witness == Called /\ a = 3 /\ b = 9 /\ na = "white_knight" /\ nb = "black_knight"

\* C3: the 12 crop rectangles are each 213 wide and 213 high and exactly tile
\* [0,1278) x [0,426): none extends outside it, no two overlap, and their areas
\* add up to the area of the region (so that no pixel of it is left out).
C3_CropsTile ==
    /\ \A k \in 1..Len(crops) :
          /\ Width(crops[k]) = 213
          /\ Height(crops[k]) = 213
          /\ InRegion(crops[k], 1278, 426)
    /\ \A j, k \in 1..Len(crops) : j # k => Disjoint(crops[j], crops[k])
    /\ pc = "done" => Len(crops) = 12 /\ AreaSum(crops) = 1278 * 426

C3_Witness == pc = "done" /\ Len(crops) = 12 /\ crops[12] = <<1065, 213, 1278, 426>>

\* C4: a run that starts with no "tiles/" and an openable 1278 x 426
\* "sprites.png" terminates, after exactly 12 saves, and "tiles/" then holds
\* exactly the 12 files "{color}_{piece}.png", each a tile.
C4_TwelveTiles ==
    /\ [](pc = "done" /\ sheet = <<1278, 426>> =>
            /\ Len(saved) = 12
            /\ ~removed => DOMAIN files = AllTileFiles /\ TileFiles = AllTileFiles)
    /\ (pc = "mkdir" /\ ~tilesExists /\ spriteOk /\ sheetSize = <<1278, 426>>)
          ~> (pc = "done" /\ Len(saved) = 12)

C4_Witness ==
    /\ pc = "done" /\ sheet = <<1278, 426>> /\ ~removed
    /\ Len(saved) = 12 /\ Cardinality(DOMAIN files) = 12

\* C5: a run that follows another run fails at mkdir with FileExistsError,
\* whether the earlier run succeeded or failed, unless "tiles/" was removed
\* between the two runs (and then mkdir succeeds).
C5_SecondRunFails ==
    [][ (pc = "mkdir" /\ run >= 2) =>
            /\ ~removed => pc' = "failed" /\ err' = "FileExistsError" /\ files' = files
            /\ removed => pc' = "open" /\ err' = "none" ]_vars

C5_Witness ==
    /\ run = 2 /\ prevErr = "none" /\ ~removed
    /\ pc = "failed" /\ err = "FileExistsError" /\ Cardinality(DOMAIN files) = 12

C7_RowMajor ==
    /\ (pc = "loop" /\ y < Rows) => i = 6 * y + x
    /\ Len(saved) = Len(crops)
    /\ pc \in {"loop", "done"} => Len(saved) = i
    /\ \A k \in 1..Len(saved) :
          /\ saved[k] = name(k - 1) \o ".png"
          /\ crops[k][1] = ((k - 1) % 6) * 213
          /\ crops[k][2] = ((k - 1) \div 6) * 213
          /\ ~removed => saved[k] \in TileFiles /\ files[saved[k]].box = crops[k]

C7_Witness ==
    /\ pc = "loop" /\ i = 8 /\ x = 2 /\ y = 1 /\ ~removed
    /\ files["black_queen.png"].box = <<213, 213, 426, 426>>

\* C8: the run ends at the first error and takes no step after it.  When
\* "tiles/" exists, the run fails at mkdir, before the image is opened and before
\* any tile is written, and the directory's files are unchanged.  When the save at
\* index k fails, exactly the tiles of the indices 0..k-1 have been written, none
\* of the indices k..11.
C8_StopAtFirstError ==
    /\ [][ (pc = "mkdir" /\ tilesExists) =>
              /\ pc' = "failed" /\ err' = "FileExistsError"
              /\ files' = files /\ sheet' = NoImage /\ saved' = <<>> ]_vars
    /\ [](err = "FileExistsError" => pc = "failed" /\ sheet = NoImage /\ saved = <<>>)
    /\ []((sheet # NoImage /\ ~removed) =>
              /\ TileFiles = {name(k) \o ".png" : k \in 0..(i - 1)}
              /\ DOMAIN files \subseteq {name(k) \o ".png" : k \in 0..i}
              /\ pc # "failed" => DOMAIN files = TileFiles)
    /\ [](err = "OSError" => pc = "failed" /\ Len(saved) = i /\ Len(crops) = i + 1)
    /\ [][ (pc = "failed" /\ run' = run) =>
              /\ pc' = "failed" /\ err' = err
              /\ UNCHANGED <<sheet, i, x, y, saved, crops>>
              /\ (files' = files \/ files' = NoFiles) ]_vars

C8_Witness ==
    /\ pc = "failed" /\ err = "OSError" /\ i = 7 /\ ~removed
    /\ TileFiles = {name(k) \o ".png" : k \in 0..6}
    /\ "black_queen.png" \in DOMAIN files

\* C9: in one run every tile file is written at most once: name is injective on
\* 0..11, no two saves of the run have the same file name, and the directory
\* holds one file per save.
C9_WrittenOnce ==
    /\ \A j, k \in 0..11 : j # k => name(j) # name(k)
    /\ NoDup(saved)
    /\ (sheet # NoImage /\ ~removed) => Cardinality(DOMAIN files) = Len(saved)

C9_Witness == pc = "done" /\ Len(saved) = 12 /\ ~removed /\ Cardinality(DOMAIN files) = 12

\* C10: "tiles/" is created before "sprites.png" is opened: when the image cannot
\* be opened the run fails and leaves an empty "tiles/", and a later run fails at
\* mkdir on it (unless it was removed), also when the image is available then.
C10_DirBeforeOpen ==
    [][ /\ (pc = "open" /\ ~spriteOk) =>
              /\ pc' = "failed" /\ err' = "FileNotFoundError"
              /\ tilesExists' /\ files' = NoFiles
        /\ (pc = "mkdir" /\ prevErr = "FileNotFoundError" /\ ~removed) =>
              /\ pc' = "failed" /\ err' = "FileExistsError"
              /\ tilesExists' /\ files' = NoFiles ]_vars

C10_Witness ==
    /\ run = 2 /\ prevErr = "FileNotFoundError" /\ ~removed /\ spriteOk
    /\ pc = "failed" /\ err = "FileExistsError" /\ tilesExists /\ files = NoFiles

====
